---- MODULE Spec2Model ----
(***************************************************************************)
(* web-ch-file-line: apply WEB change files (@x / @y / @z sections) to a   *)
(* base text, keeping for every line the file and line number it came      *)
(* from.  The model follows src/src/lib.rs: run, read_filelines,            *)
(* read_changefile, apply_changefile with its inner match_position.        *)
(*                                                                         *)
(* A line's contents are a sequence of byte values; a file is a sequence   *)
(* of bytes in which 0x0A ends a line.                                     *)
(***************************************************************************)
EXTENDS Integers, Sequences, FiniteSets, TLC

VARIABLES
    fs,              \* file name -> bytes of the file
    chfilenames,     \* config.chfilenames
    chi,             \* number of change files taken from chfilenames so far
    pc,              \* position of the program
    weblines,        \* run's weblines; inside apply_changefile, the VecDeque
    chfilelines,     \* read_changefile: lines the iterator has not yielded yet
    sections,        \* read_changefile: sections pushed so far
    headline,        \* read_changefile: header of the open section
    oldlines,        \* read_changefile: old lines of the open section
    newlines,        \* read_changefile: new lines of the open section
    chfile,          \* run's chfile: what read_changefile returned
    text,            \* apply_changefile: the weblines argument as passed in
    chfilesections,  \* apply_changefile: sections the for loop has not taken yet
    section,         \* apply_changefile: the section of the last iteration
    matches,         \* apply_changefile: history of (start in text, length) matched
    result,          \* apply_changefile: result
    err,             \* the error run returned, or NoErr
    stderr,          \* diagnostics written by eprintln!
    out,             \* the line sequence handed to the renderer, or NotRendered
    args,            \* Config::new: the argument vector
    argi,            \* Config::new: i
    verbose,         \* Config::new: verbose
    directory,       \* Config::new: directory, <<>> for None, <<d>> for Some(d)
    output,          \* Config::new: output, <<>> for None, <<o>> for Some(o)
    config,          \* what Config::new returned: NoConfig, a Config or an Err
    cwd,             \* the working directory of the process
    renderer,        \* the renderer run has called, or "none"
    printed,         \* bytes print_filelines wrote to standard output
    written          \* bytes write_filelines wrote to its writer

vars == <<fs, chfilenames, chi, pc, weblines, chfilelines, sections, headline,
          oldlines, newlines, chfile, text, chfilesections, section, matches,
          result, err, stderr, out, args, argi, verbose, directory, output,
          config, cwd, renderer, printed, written>>

parse_vars == <<chfilelines, sections, headline, oldlines, newlines>>
apply_vars == <<text, chfilesections, section, matches, result>>
config_vars == <<args, argi, verbose, directory, output, config, cwd>>
render_vars == <<renderer, printed, written>>
\* what no step of read_changefile or apply_changefile changes
input_vars == <<fs, chfilenames, config_vars, render_vars>>

-----------------------------------------------------------------------------
(* Values *)

\* a file that does not exist: no byte sequence
NoFile == <<-1>>

\* the std::io::Error of a failed File::open, File::create or set_current_dir
IoError(name) == [kind |-> "io", filename |-> name]

NoErr == [kind |-> "none"]
NoLine == [filename |-> "", line_num |-> 0, contents |-> <<>>]
NoSection == [headline |-> NoLine, oldlines |-> <<>>, newlines |-> <<>>]
NotRendered == <<"not rendered">>

\* struct FileLine
FileLine(filename, line_num, contents) ==
    [filename |-> filename, line_num |-> line_num, contents |-> contents]

\* struct ChangeFileSection
ChangeFileSection(h, o, n) == [headline |-> h, oldlines |-> o, newlines |-> n]

\* cfg!(windows): the build this model describes is not a Windows build
Windows == FALSE

LF == 10
CR == 13

-----------------------------------------------------------------------------
(* Byte helpers *)

\* u8::is_ascii_whitespace: space, tab, line feed, form feed, carriage return
IsAsciiWhitespace(b) == b \in {32, 9, 10, 12, 13}

\* slice::starts_with
StartsWith(s, p) ==
    /\ Len(s) >= Len(p)
    /\ \A k \in 1..Len(p) : s[k] = p[k]

\* Mutant of u8_slice_trim_start: trims nothing
TrimStartNothing(s) == s

\* fn u8_slice_trim_start
u8_slice_trim_start(s) ==
    LET nonws == {k \in 1..Len(s) : ~IsAsciiWhitespace(s[k])}
        first == IF nonws = {} THEN Len(s) + 1
                 ELSE CHOOSE k \in nonws : \A j \in nonws : k <= j
    IN  SubSeq(s, first, Len(s))

AtX == <<64, 120>>
AtY == <<64, 121>>
AtZ == <<64, 122>>

-----------------------------------------------------------------------------
(* read_filelines *)

RECURSIVE SplitLines(_, _)
\* the loop of read_filelines: read_until(0x0A), strip the tail LF (and CR on
\* Windows); `cur` is the line being read
SplitLines(bytes, cur) ==
    IF bytes = <<>>
    THEN IF cur = <<>> THEN <<>> ELSE <<cur>>
    ELSE IF Head(bytes) = LF
         THEN LET stripped == IF Windows /\ cur # <<>> /\ cur[Len(cur)] = CR
                              THEN SubSeq(cur, 1, Len(cur) - 1)
                              ELSE cur
              IN  <<stripped>> \o SplitLines(Tail(bytes), <<>>)
         ELSE SplitLines(Tail(bytes), Append(cur, Head(bytes)))

\* Mutant of read_filelines: lines are numbered from 0
ReadFilelinesFromZero(filename) ==
    LET ls == SplitLines(fs[filename], <<>>)
    IN  [i \in 1..Len(ls) |-> FileLine(filename, i - 1, ls[i])]

\* fn read_filelines (the file exists)
read_filelines(filename) ==
    LET ls == SplitLines(fs[filename], <<>>)
    IN  [i \in 1..Len(ls) |-> FileLine(filename, i, ls[i])]

-----------------------------------------------------------------------------
(* read_changefile: one action per iteration of its loops *)

\* the filename argument of the read_changefile call in progress
filename == chfilenames[chi]

MissingXError(line) ==
    [kind |-> "missing_x", filename |-> line.filename, line_num |-> line.line_num]
EndedAfterXError(h) ==
    [kind |-> "ended_after_x", filename |-> h.filename, line_num |-> h.line_num]
MissingZDiagnostic(f) == [kind |-> "missing_z", filename |-> f]

\* Mutant of IsHeader: a header must be exactly "@x"
IsHeaderExact(line) == line.contents = AtX

\* line.contents.starts_with(b"@x")
IsHeader(line) == StartsWith(line.contents, AtX)

\* Mutant of IsStray: only a stray @z is refused
IsStrayOnlyZ(line) == StartsWith(line.contents, AtZ)

\* line.contents.starts_with(b"@y") || line.contents.starts_with(b"@z")
IsStray(line) == StartsWith(line.contents, AtY) \/ StartsWith(line.contents, AtZ)

\* Mutant of IsSeparator: @x also ends the old lines
IsSeparatorOrHeader(line) ==
    StartsWith(line.contents, AtY) \/ StartsWith(line.contents, AtX)

\* line.contents.starts_with(b"@y")
IsSeparator(line) == StartsWith(line.contents, AtY)

\* line.contents.starts_with(b"@z")
IsTerminator(line) == StartsWith(line.contents, AtZ)

\* Mutant of KeepsOldLine: blank lines are dropped wherever they stand
KeepsOldLineNonBlank(old, line) == Len(u8_slice_trim_start(line.contents)) > 0

\* oldlines.len() > 0 || u8_slice_trim_start(&line.contents).len() > 0
KeepsOldLine(old, line) ==
    Len(old) > 0 \/ Len(u8_slice_trim_start(line.contents)) > 0

\* let chfile = read_changefile(chfilename)?  -- the call: the file is read whole
ReadChangefile ==
    /\ pc = "chfile_loop"
    /\ chi < Len(chfilenames)
    /\ fs[chfilenames[chi + 1]] # NoFile
    /\ chi' = chi + 1
    /\ chfilelines' = read_filelines(chfilenames[chi + 1])
    /\ sections' = <<>>
    /\ headline' = NoLine
    /\ oldlines' = <<>>
    /\ newlines' = <<>>
    /\ pc' = "find_x"
    /\ UNCHANGED <<input_vars, weblines, chfile, apply_vars, err, stderr, out>>

\* find @x: the iterator is exhausted, break 'outer and return Ok(sections)
FindXEof ==
    /\ pc = "find_x"
    /\ chfilelines = <<>>
    /\ chfile' = sections
    /\ pc' = "parsed"
    /\ UNCHANGED <<input_vars, chi, weblines, parse_vars, apply_vars, err, stderr, out>>

\* Mutant of FindXHeader: the header line is looked at but left in the iterator
FindXHeaderPeeks ==
    /\ pc = "find_x"
    /\ chfilelines # <<>>
    /\ IsHeader(Head(chfilelines))
    /\ headline' = Head(chfilelines)
    /\ oldlines' = <<>>
    /\ pc' = "find_y"
    /\ UNCHANGED <<input_vars, chi, weblines, chfilelines, sections, newlines,
                   chfile, apply_vars, err, stderr, out>>

\* find @x: the line begins a section
FindXHeader ==
    /\ pc = "find_x"
    /\ chfilelines # <<>>
    /\ IsHeader(Head(chfilelines))
    /\ headline' = Head(chfilelines)
    /\ chfilelines' = Tail(chfilelines)
    /\ oldlines' = <<>>
    /\ pc' = "find_y"
    /\ UNCHANGED <<input_vars, chi, weblines, sections, newlines, chfile,
                   apply_vars, err, stderr, out>>

\* find @x: @y or @z without @x, return Err
FindXStray ==
    /\ pc = "find_x"
    /\ chfilelines # <<>>
    /\ ~IsHeader(Head(chfilelines))
    /\ IsStray(Head(chfilelines))
    /\ err' = MissingXError(Head(chfilelines))
    /\ chfilelines' = <<>>
    /\ sections' = <<>>
    /\ pc' = "failed"
    /\ UNCHANGED <<input_vars, chi, weblines, headline, oldlines, newlines, chfile,
                   apply_vars, stderr, out>>

\* find @x: any other line is passed over
FindXSkip ==
    /\ pc = "find_x"
    /\ chfilelines # <<>>
    /\ ~IsHeader(Head(chfilelines))
    /\ ~IsStray(Head(chfilelines))
    /\ chfilelines' = Tail(chfilelines)
    /\ UNCHANGED <<input_vars, chi, pc, weblines, sections, headline, oldlines,
                   newlines, chfile, apply_vars, err, stderr, out>>

\* Mutant of FindYEof: the end of the file closes the section, as it does
\* after @y
FindYEofTolerated ==
    /\ pc = "find_y"
    /\ chfilelines = <<>>
    /\ stderr' = Append(stderr, MissingZDiagnostic(filename))
    /\ sections' = Append(sections, ChangeFileSection(headline, oldlines, <<>>))
    /\ pc' = "find_x"
    /\ UNCHANGED <<input_vars, chi, weblines, chfilelines, headline, oldlines,
                   newlines, chfile, apply_vars, err, out>>

\* find @y: the file ended after @x, return Err
FindYEof ==
    /\ pc = "find_y"
    /\ chfilelines = <<>>
    /\ err' = EndedAfterXError(headline)
    /\ sections' = <<>>
    /\ oldlines' = <<>>
    /\ pc' = "failed"
    /\ UNCHANGED <<input_vars, chi, weblines, chfilelines, headline, newlines,
                   chfile, apply_vars, stderr, out>>

\* find @y: the separator, break
FindYSeparator ==
    /\ pc = "find_y"
    /\ chfilelines # <<>>
    /\ IsSeparator(Head(chfilelines))
    /\ chfilelines' = Tail(chfilelines)
    /\ newlines' = <<>>
    /\ pc' = "find_z"
    /\ UNCHANGED <<input_vars, chi, weblines, sections, headline, oldlines, chfile,
                   apply_vars, err, stderr, out>>

\* find @y: an old line, pushed unless it is a leading blank line
FindYLine ==
    /\ pc = "find_y"
    /\ chfilelines # <<>>
    /\ ~IsSeparator(Head(chfilelines))
    /\ oldlines' = IF KeepsOldLine(oldlines, Head(chfilelines))
                   THEN Append(oldlines, Head(chfilelines))
                   ELSE oldlines
    /\ chfilelines' = Tail(chfilelines)
    /\ UNCHANGED <<input_vars, chi, pc, weblines, sections, headline, newlines,
                   chfile, apply_vars, err, stderr, out>>

\* Mutant of FindZEof: the end of the file after @y is an error, as it is
\* after @x
FindZEofFails ==
    /\ pc = "find_z"
    /\ chfilelines = <<>>
    /\ err' = EndedAfterXError(headline)
    /\ sections' = <<>>
    /\ pc' = "failed"
    /\ UNCHANGED <<input_vars, chi, weblines, chfilelines, headline, oldlines,
                   newlines, chfile, apply_vars, stderr, out>>

\* find @z: the file ended, eprintln! and break; the section is pushed
FindZEof ==
    /\ pc = "find_z"
    /\ chfilelines = <<>>
    /\ stderr' = Append(stderr, MissingZDiagnostic(filename))
    /\ sections' = Append(sections, ChangeFileSection(headline, oldlines, newlines))
    /\ pc' = "find_x"
    /\ UNCHANGED <<input_vars, chi, weblines, chfilelines, headline, oldlines,
                   newlines, chfile, apply_vars, err, out>>

\* find @z: the terminator, break; the section is pushed
FindZTerminator ==
    /\ pc = "find_z"
    /\ chfilelines # <<>>
    /\ IsTerminator(Head(chfilelines))
    /\ chfilelines' = Tail(chfilelines)
    /\ sections' = Append(sections, ChangeFileSection(headline, oldlines, newlines))
    /\ pc' = "find_x"
    /\ UNCHANGED <<input_vars, chi, weblines, headline, oldlines, newlines, chfile,
                   apply_vars, err, stderr, out>>

\* find @z: a new line
FindZLine ==
    /\ pc = "find_z"
    /\ chfilelines # <<>>
    /\ ~IsTerminator(Head(chfilelines))
    /\ newlines' = Append(newlines, Head(chfilelines))
    /\ chfilelines' = Tail(chfilelines)
    /\ UNCHANGED <<input_vars, chi, pc, weblines, sections, headline, oldlines,
                   chfile, apply_vars, err, stderr, out>>

NextParse ==
    \/ ReadChangefile
    \/ FindXEof
    \/ FindXHeader
    \/ FindXStray
    \/ FindXSkip
    \/ FindYEof
    \/ FindYSeparator
    \/ FindYLine
    \/ FindZEof
    \/ FindZTerminator
    \/ FindZLine

-----------------------------------------------------------------------------
(* apply_changefile: one action per iteration of its for loop *)

NoMatchError(h) ==
    [kind |-> "no_match", filename |-> h.filename, line_num |-> h.line_num]

Min(a, b) == IF a <= b THEN a ELSE b

\* weblines.range(i..).take(oldlines.len()).map(|l| &l.contents)
\*     .eq(oldlines.iter().map(|l| &l.contents)), i counted from 0
RunEq(w, i, old) ==
    LET taken == SubSeq(w, i + 1, Min(Len(w), i + Len(old)))
    IN  /\ Len(taken) = Len(old)
        /\ \A k \in 1..Len(old) : taken[k].contents = old[k].contents

\* Mutant of match_position: the last matching index instead of the first
MatchPositionLast(w, old) ==
    IF Len(w) < Len(old) THEN <<>>
    ELSE LET hits == {i \in 0..(Len(w) - 1) : RunEq(w, i, old)}
         IN  IF hits = {} THEN <<>>
             ELSE <<CHOOSE i \in hits : \A j \in hits : j <= i>>

\* Mutant of match_position: a run cut short by the end of the text is accepted
MatchPositionPrefix(w, old) ==
    LET hits == {i \in 0..(Len(w) - 1) :
                    \A k \in 1..Min(Len(old), Len(w) - i) :
                        w[i + k].contents = old[k].contents}
    IN  IF hits = {} THEN <<>>
        ELSE <<CHOOSE i \in hits : \A j \in hits : i <= j>>

\* Mutant of match_position: the index range also holds weblines.len()
MatchPositionInclusive(w, old) ==
    IF Len(w) < Len(old) THEN <<>>
    ELSE LET hits == {i \in 0..Len(w) : RunEq(w, i, old)}
         IN  IF hits = {} THEN <<>>
             ELSE <<CHOOSE i \in hits : \A j \in hits : i <= j>>

\* fn match_position: <<>> is None, <<i>> is Some(i)
match_position(w, old) ==
    IF Len(w) < Len(old) THEN <<>>
    ELSE LET hits == {i \in 0..(Len(w) - 1) : RunEq(w, i, old)}
         IN  IF hits = {} THEN <<>>
             ELSE <<CHOOSE i \in hits : \A j \in hits : i <= j>>

\* n times weblines.pop_front()
PopFront(w, n) == SubSeq(w, Min(n, Len(w)) + 1, Len(w))

\* Mutant of Emitted: the matched old lines are copied to the result too
EmittedKeepsOld(w, pos, s) ==
    SubSeq(w, 1, pos + Len(s.oldlines)) \o s.newlines

\* what one iteration pushes on result: the pos lines before the match, then
\* section.newlines
Emitted(w, pos, s) == SubSeq(w, 1, pos) \o s.newlines

\* Mutant of Remaining: the search of the next section restarts at the match
RemainingFromMatch(w, pos, s) == PopFront(w, pos)

\* what one iteration leaves in the VecDeque
Remaining(w, pos, s) == PopFront(PopFront(w, pos), Len(s.oldlines))

\* Mutant of ApplyBegin: every change file is applied to the base text
ApplyBeginFromBase ==
    /\ pc = "parsed"
    /\ text' = read_filelines(config.webfilename)
    /\ weblines' = read_filelines(config.webfilename)
    /\ chfilesections' = chfile
    /\ section' = NoSection
    /\ matches' = <<>>
    /\ result' = <<>>
    /\ pc' = "apply"
    /\ UNCHANGED <<input_vars, chi, parse_vars, chfile, err, stderr, out>>

\* weblines = apply_changefile(weblines, chfile)?  -- the call
ApplyBegin ==
    /\ pc = "parsed"
    /\ text' = weblines
    /\ chfilesections' = chfile
    /\ section' = NoSection
    /\ matches' = <<>>
    /\ result' = <<>>
    /\ pc' = "apply"
    /\ UNCHANGED <<input_vars, chi, weblines, parse_vars, chfile, err, stderr, out>>

\* for mut section in chfilesections: match_position is Some(pos)
ApplySectionMatch ==
    /\ pc = "apply"
    /\ chfilesections # <<>>
    /\ LET s == Head(chfilesections)
           m == match_position(weblines, s.oldlines)
       IN  /\ m # <<>>
           /\ section' = s
           /\ matches' = Append(matches,
                  [start |-> (Len(text) - Len(weblines)) + m[1],
                   len |-> Len(s.oldlines)])
           /\ result' = result \o Emitted(weblines, m[1], s)
           /\ weblines' = Remaining(weblines, m[1], s)
    /\ chfilesections' = Tail(chfilesections)
    /\ UNCHANGED <<input_vars, chi, pc, parse_vars, chfile, text, err, stderr, out>>

\* Mutant of ApplySectionNoMatch: a section that does not match is passed over
ApplySectionNoMatchSkips ==
    /\ pc = "apply"
    /\ chfilesections # <<>>
    /\ match_position(weblines, Head(chfilesections).oldlines) = <<>>
    /\ section' = Head(chfilesections)
    /\ chfilesections' = Tail(chfilesections)
    /\ UNCHANGED <<input_vars, chi, pc, weblines, parse_vars, chfile, text,
                   matches, result, err, stderr, out>>

\* for mut section in chfilesections: match_position is None, return Err
ApplySectionNoMatch ==
    /\ pc = "apply"
    /\ chfilesections # <<>>
    /\ LET s == Head(chfilesections)
       IN  /\ match_position(weblines, s.oldlines) = <<>>
           /\ section' = s
           /\ err' = NoMatchError(s.headline)
    /\ chfilesections' = <<>>
    /\ result' = <<>>
    /\ weblines' = <<>>
    /\ pc' = "failed"
    /\ UNCHANGED <<input_vars, chi, parse_vars, chfile, text, matches, stderr, out>>

\* Mutant of ApplyFinish: the lines left after the last section are not copied
ApplyFinishDropsRest ==
    /\ pc = "apply"
    /\ chfilesections = <<>>
    /\ weblines' = result
    /\ pc' = "chfile_loop"
    /\ UNCHANGED <<input_vars, chi, parse_vars, chfile, apply_vars, err, stderr, out>>

\* after the loop: the rest of the VecDeque is pushed, Ok(result) is returned
\* and run assigns it to weblines
ApplyFinish ==
    /\ pc = "apply"
    /\ chfilesections = <<>>
    /\ result' = result \o weblines
    /\ weblines' = result \o weblines
    /\ pc' = "chfile_loop"
    /\ UNCHANGED <<input_vars, chi, parse_vars, chfile, text, chfilesections,
                   section, matches, err, stderr, out>>

-----------------------------------------------------------------------------
(* print_filelines, write_filelines, usize_str_len: byte streams *)

\* usize is modelled UsizeBits wide; usize::MAX
UsizeBits == 16
UsizeMax == 2 ^ UsizeBits - 1

\* the UTF-8 bytes of a filename (String); a name not listed is ASCII "?"
NameBytes(name) ==
    CASE name = "web" -> <<119, 101, 98>>
      [] name = "ch1" -> <<99, 104, 49>>
      [] name = "ch2" -> <<99, 104, 50>>
      [] name = "w" -> <<119>>
      [] name = "café" -> <<99, 97, 102, 195, 169>>
      [] name = "change.ch" -> <<99, 104, 97, 110, 103, 101, 46, 99, 104>>
      [] OTHER -> <<63>>

\* the number of chars of a UTF-8 string: its bytes that are no continuation
CharCount(bytes) ==
    Cardinality({i \in 1..Len(bytes) : ~(bytes[i] >= 128 /\ bytes[i] < 192)})

\* Display of a usize: its decimal digits
RECURSIVE Decimal(_)
Decimal(n) ==
    IF n < 10 THEN <<48 + n>> ELSE Decimal(n \div 10) \o <<48 + (n % 10)>>

\* the while loop of usize_str_len; checked_mul is None when the product
\* exceeds usize::MAX
RECURSIVE UsizeStrLenLoop(_, _, _)
UsizeStrLenLoop(n, power, count) ==
    IF n >= power
    THEN IF power * 10 <= UsizeMax
         THEN UsizeStrLenLoop(n, power * 10, count + 1)
         ELSE count + 1
    ELSE count

usize_str_len(n) == UsizeStrLenLoop(n, 10, 1)

\* iter().fold(0, |max, x| usize::max(max, x)) over the values in S
FoldMax(S) == IF S = {} THEN 0 ELSE CHOOSE m \in S : \A x \in S : x <= m

max_filename(lines) ==
    FoldMax({Len(NameBytes(lines[i].filename)) : i \in 1..Len(lines)})

max_line_str(lines) ==
    usize_str_len(FoldMax({lines[i].line_num : i \in 1..Len(lines)}))

\* Mutant of width: the two parentheses of the prefix are not counted
WidthWithoutParens(lines) == max_filename(lines) + max_line_str(lines)

\* let width = max_filename + max_line_str + 2
width(lines) == max_filename(lines) + max_line_str(lines) + 2

\* format!("{}({})", line.filename, line.line_num)
fileline(line) ==
    NameBytes(line.filename) \o <<40>> \o Decimal(line.line_num) \o <<41>>

\* "{:width$}": a string is padded on the right with spaces up to w chars and
\* is never truncated
PadWidth(s, w) ==
    s \o [i \in 1..(IF w > CharCount(s) THEN w - CharCount(s) ELSE 0) |-> 32]

\* " | "
Separator == <<32, 124, 32>>

\* {:02X} of a byte
HexDigit(d) == IF d < 10 THEN 48 + d ELSE 55 + d
UpperHex02(b) == <<HexDigit(b \div 16), HexDigit(b % 16)>>

\* the body of `for &b in &line.contents` in print_filelines
PrintByte(b) ==
    IF b >= 32 /\ b <= 126
    THEN <<b>>
    ELSE <<27, 91, 55, 109, 60>> \o UpperHex02(b) \o <<62, 27, 91, 48, 109>>

RECURSIVE Flatten(_)
\* the bytes written by a sequence of writes
Flatten(ss) == IF ss = <<>> THEN <<>> ELSE Head(ss) \o Flatten(Tail(ss))

\* fn print_filelines: what it writes to standard output
print_filelines(lines) ==
    Flatten([i \in 1..Len(lines) |->
        PadWidth(fileline(lines[i]), width(lines)) \o Separator
            \o Flatten([j \in 1..Len(lines[i].contents) |->
                            PrintByte(lines[i].contents[j])])
            \o <<LF>>])

\* fn write_filelines: what it writes to w
write_filelines(lines) ==
    Flatten([i \in 1..Len(lines) |->
        PadWidth(fileline(lines[i]), width(lines)) \o Separator
            \o lines[i].contents
            \o (IF Windows THEN <<CR, LF>> ELSE <<LF>>)])

-----------------------------------------------------------------------------
(* Config::new and main: one action per iteration of the option loop *)

NoConfig == [kind |-> "none"]
ConfigErr(msg) == [kind |-> "Err", msg |-> msg]
Config(v, d, o, w, c) ==
    [kind |-> "Ok", verbose |-> v, directory |-> d, output |-> o,
     webfilename |-> w, chfilenames |-> c]

\* the while condition holds and args[i] is the string s
AtOption(s) ==
    /\ pc = "config_new"
    /\ argi < Len(args)
    /\ args[argi + 1] = s

\* "-v"
ConfigVerbose ==
    /\ AtOption("-v")
    /\ verbose' = verbose + 1
    /\ argi' = argi + 1
    /\ UNCHANGED <<fs, chfilenames, args, directory, output, config, cwd,
                   render_vars, chi, pc, weblines, parse_vars, chfile,
                   apply_vars, err, stderr, out>>

\* "-vv"
ConfigVeryVerbose ==
    /\ AtOption("-vv")
    /\ verbose' = verbose + 2
    /\ argi' = argi + 1
    /\ UNCHANGED <<fs, chfilenames, args, directory, output, config, cwd,
                   render_vars, chi, pc, weblines, parse_vars, chfile,
                   apply_vars, err, stderr, out>>

\* "-w" with a value
ConfigDirectory ==
    /\ AtOption("-w")
    /\ argi + 1 < Len(args)
    /\ directory' = <<args[argi + 2]>>
    /\ argi' = argi + 2
    /\ UNCHANGED <<fs, chfilenames, args, verbose, output, config, cwd,
                   render_vars, chi, pc, weblines, parse_vars, chfile,
                   apply_vars, err, stderr, out>>

\* "-w" is the last argument
ConfigDirectoryMissing ==
    /\ AtOption("-w")
    /\ ~(argi + 1 < Len(args))
    /\ config' = ConfigErr("-w require working directory")
    /\ pc' = "main"
    /\ UNCHANGED <<fs, chfilenames, args, argi, verbose, directory, output, cwd,
                   render_vars, chi, weblines, parse_vars, chfile,
                   apply_vars, err, stderr, out>>

\* "-o" with a value
ConfigOutput ==
    /\ AtOption("-o")
    /\ argi + 1 < Len(args)
    /\ output' = <<args[argi + 2]>>
    /\ argi' = argi + 2
    /\ UNCHANGED <<fs, chfilenames, args, verbose, directory, config, cwd,
                   render_vars, chi, pc, weblines, parse_vars, chfile,
                   apply_vars, err, stderr, out>>

\* "-o" is the last argument
ConfigOutputMissing ==
    /\ AtOption("-o")
    /\ ~(argi + 1 < Len(args))
    /\ config' = ConfigErr("-o require output filename")
    /\ pc' = "main"
    /\ UNCHANGED <<fs, chfilenames, args, argi, verbose, directory, output, cwd,
                   render_vars, chi, weblines, parse_vars, chfile,
                   apply_vars, err, stderr, out>>

\* "--": i += 1; break
ConfigDashDash ==
    /\ AtOption("--")
    /\ argi' = argi + 1
    /\ pc' = "config_check"
    /\ UNCHANGED <<fs, chfilenames, args, verbose, directory, output, config,
                   cwd, render_vars, chi, weblines, parse_vars, chfile,
                   apply_vars, err, stderr, out>>

\* _ => break, or the while condition is false
ConfigBreak ==
    /\ pc = "config_new"
    /\ \/ ~(argi < Len(args))
       \/ /\ argi < Len(args)
          /\ args[argi + 1] \notin {"-v", "-vv", "-w", "-o", "--"}
    /\ pc' = "config_check"
    /\ UNCHANGED <<input_vars, chi, weblines, parse_vars, chfile, apply_vars,
                   err, stderr, out>>

\* args.len() - i with i > args.len(): the subtraction panics where overflow
\* is checked; where it wraps, the difference is not below 2 and args[i]
\* panics, the index being out of bounds
ConfigPanics ==
    /\ pc = "config_check"
    /\ argi > Len(args)
    /\ pc' = "panicked"
    /\ UNCHANGED <<input_vars, chi, weblines, parse_vars, chfile, apply_vars,
                   err, stderr, out>>

\* if args.len() - i < 2 { return Err("not enough arguments") }
ConfigNotEnough ==
    /\ pc = "config_check"
    /\ argi <= Len(args)
    /\ Len(args) - argi < 2
    /\ config' = ConfigErr("not enough arguments")
    /\ pc' = "main"
    /\ UNCHANGED <<fs, chfilenames, args, argi, verbose, directory, output, cwd,
                   render_vars, chi, weblines, parse_vars, chfile,
                   apply_vars, err, stderr, out>>

\* webfilename = args[i]; i += 1; chfilenames = args[i..]; Ok(Config {..})
ConfigOk ==
    /\ pc = "config_check"
    /\ argi <= Len(args)
    /\ ~(Len(args) - argi < 2)
    /\ argi' = argi + 1
    /\ config' = Config(verbose, directory, output, args[argi + 1],
                        SubSeq(args, argi + 2, Len(args)))
    /\ chfilenames' = SubSeq(args, argi + 2, Len(args))
    /\ pc' = "main"
    /\ UNCHANGED <<fs, args, verbose, directory, output, cwd,
                   render_vars, chi, weblines, parse_vars, chfile,
                   apply_vars, err, stderr, out>>

\* main: unwrap_or_else on Err prints the problem and exits with status 1
MainExit ==
    /\ pc = "main"
    /\ config.kind = "Err"
    /\ pc' = "exit"
    /\ UNCHANGED <<input_vars, chi, weblines, parse_vars, chfile, apply_vars,
                   err, stderr, out>>

\* main: run(config) is called
MainRun ==
    /\ pc = "main"
    /\ config.kind = "Ok"
    /\ pc' = "run"
    /\ UNCHANGED <<input_vars, chi, weblines, parse_vars, chfile, apply_vars,
                   err, stderr, out>>

-----------------------------------------------------------------------------
(* run *)

\* config.webfilename
webfilename == config.webfilename

\* if let Some(working_directory) = config.directory: set_current_dir succeeds
SetCurrentDir ==
    /\ pc = "run"
    /\ cwd' = IF config.directory = <<>> THEN cwd ELSE config.directory[1]
    /\ pc' = "start"
    /\ UNCHANGED <<fs, chfilenames, args, argi, verbose, directory, output,
                   config, render_vars, chi, weblines, parse_vars, chfile,
                   apply_vars, err, stderr, out>>

\* std::env::set_current_dir(&working_directory)? returns the error
SetCurrentDirFails ==
    /\ pc = "run"
    /\ config.directory # <<>>
    /\ err' = IoError(config.directory[1])
    /\ pc' = "failed"
    /\ UNCHANGED <<input_vars, chi, weblines, parse_vars, chfile, apply_vars,
                   stderr, out>>

\* let mut weblines = read_filelines(&config.webfilename)?
ReadWeb ==
    /\ pc = "start"
    /\ fs[webfilename] # NoFile
    /\ weblines' = read_filelines(webfilename)
    /\ pc' = "chfile_loop"
    /\ UNCHANGED <<input_vars, chi, parse_vars, chfile, apply_vars, err, stderr, out>>

\* read_filelines(&config.webfilename)?: File::open fails, run returns the error
ReadWebFails ==
    /\ pc = "start"
    /\ fs[webfilename] = NoFile
    /\ err' = IoError(webfilename)
    /\ pc' = "failed"
    /\ UNCHANGED <<input_vars, chi, weblines, parse_vars, chfile, apply_vars,
                   stderr, out>>

\* Mutant of ReadChangefileFails: a change file that cannot be opened is skipped
ReadChangefileSkipped ==
    /\ pc = "chfile_loop"
    /\ chi < Len(chfilenames)
    /\ fs[chfilenames[chi + 1]] = NoFile
    /\ chi' = chi + 1
    /\ err' = IoError(chfilenames[chi + 1])
    /\ UNCHANGED <<input_vars, pc, weblines, parse_vars, chfile, apply_vars,
                   stderr, out>>

\* read_changefile(chfilename)?: File::open fails, run returns the error
ReadChangefileFails ==
    /\ pc = "chfile_loop"
    /\ chi < Len(chfilenames)
    /\ fs[chfilenames[chi + 1]] = NoFile
    /\ chi' = chi + 1
    /\ err' = IoError(chfilenames[chi + 1])
    /\ pc' = "failed"
    /\ UNCHANGED <<input_vars, weblines, parse_vars, chfile, apply_vars,
                   stderr, out>>

\* match config.output: every change file is applied, the renderer gets weblines
Render ==
    /\ pc = "chfile_loop"
    /\ chi = Len(chfilenames)
    /\ out' = weblines
    /\ pc' = "done"
    /\ UNCHANGED <<chfilenames, config_vars, chi, weblines, parse_vars, chfile,
                   apply_vars, err, stderr>>

\* None => print_filelines(&weblines)
RenderListing ==
    /\ config.output = <<>>
    /\ Render
    /\ renderer' = "print_filelines"
    /\ printed' = print_filelines(weblines)
    /\ UNCHANGED <<fs, written>>

\* Some("-") => write_filelines(std::io::stdout(), &weblines)?
RenderStdout ==
    /\ config.output = <<"-">>
    /\ Render
    /\ renderer' = "write_filelines"
    /\ written' = write_filelines(weblines)
    /\ UNCHANGED <<fs, printed>>

\* Some(output) => write_filelines(BufWriter::new(fs::File::create(output)?), ..)?
RenderFile ==
    /\ config.output \notin {<<>>, <<"-">>}
    /\ Render
    /\ renderer' = "write_filelines"
    /\ written' = write_filelines(weblines)
    /\ fs' = [n \in DOMAIN fs \cup {config.output[1]} |->
                  IF n = config.output[1] THEN write_filelines(weblines) ELSE fs[n]]
    /\ UNCHANGED printed

\* fs::File::create(output)? returns the error
RenderCreateFails ==
    /\ pc = "chfile_loop"
    /\ chi = Len(chfilenames)
    /\ config.output \notin {<<>>, <<"-">>}
    /\ err' = IoError(config.output[1])
    /\ pc' = "failed"
    /\ UNCHANGED <<input_vars, chi, weblines, parse_vars, chfile, apply_vars,
                   stderr, out>>

Next ==
    \/ ReadWeb
    \/ ReadChangefile
    \/ FindXEof
    \/ FindXHeader
    \/ FindXStray
    \/ FindXSkip
    \/ FindYEof
    \/ FindYSeparator
    \/ FindYLine
    \/ FindZEof
    \/ FindZTerminator
    \/ FindZLine
    \/ ApplyBegin
    \/ ApplySectionMatch
    \/ ApplySectionNoMatch
    \/ ApplyFinish
    \/ ReadWebFails
    \/ ReadChangefileFails
    \/ RenderListing
    \/ RenderStdout
    \/ RenderFile
    \/ RenderCreateFails

\* Config::new, main and run up to the first file read
NextConfig ==
    \/ ConfigVerbose
    \/ ConfigVeryVerbose
    \/ ConfigDirectory
    \/ ConfigDirectoryMissing
    \/ ConfigOutput
    \/ ConfigOutputMissing
    \/ ConfigDashDash
    \/ ConfigBreak
    \/ ConfigPanics
    \/ ConfigNotEnough
    \/ ConfigOk
    \/ MainExit
    \/ MainRun
    \/ SetCurrentDir
    \/ SetCurrentDirFails
    \/ ReadWeb
    \/ ReadWebFails

\* match config.output alone
NextRender ==
    \/ RenderListing
    \/ RenderStdout
    \/ RenderFile
    \/ RenderCreateFails

-----------------------------------------------------------------------------
(* Inputs: the files the program is run on *)

MaxWebLen == 3     \* lines of the base file
MaxChLen == 8      \* lines of a well-formed change file
MaxRawLen == 3     \* lines of an arbitrary change file given to run
TwoWebLen == 1     \* lines of the base file when two change files are given
TwoChLen == 5      \* lines of each change file when two are given
MaxParseLen == 6   \* lines of an arbitrary change file given to read_changefile

cA == <<65>>
cB == <<66>>
cC == <<67>>
cD == <<68>>
cX == <<88>>
cZ == <<90>>
cEmpty == <<>>
cBlank == <<32, 32>>
cFoo == <<102, 111, 111>>

Letters == {cA, cB}
RawContents == {cA, AtX, AtY, AtZ}
ParseContents == {cEmpty, cBlank, cFoo, AtX, AtY, AtZ}

BoundedSeqs(S, n) == UNION {[1..k -> S] : k \in 0..n}

RECURSIVE FileBytes(_)
\* the bytes of the file whose lines are `lines`, each ended by a line feed
FileBytes(lines) ==
    IF lines = <<>> THEN <<>>
    ELSE Head(lines) \o <<LF>> \o FileBytes(Tail(lines))

SectionLines(old, new) == <<AtX>> \o old \o <<AtY>> \o new \o <<AtZ>>

RECURSIVE WellFormed(_)
\* the change files of at most n lines made of complete sections whose old and
\* new lines are Letters
WellFormed(n) ==
    {<<>>} \cup
    IF n < 3 THEN {}
    ELSE UNION {
           {SectionLines(p[1], p[2]) \o rest :
                rest \in WellFormed(n - 3 - Len(p[1]) - Len(p[2]))} :
           p \in {q \in BoundedSeqs(Letters, n - 3) \X BoundedSeqs(Letters, n - 3) :
                      Len(q[1]) + Len(q[2]) <= n - 3}}

\* the inputs the specification's examples name
ExampleInputs ==
    { <<(<<cA, cB, cC, cD>>), SectionLines(<<cB, cC>>, <<cX>>)>>,
      <<(<<cA, cB>>), SectionLines(<<cB>>, <<>>) \o SectionLines(<<cA>>, <<>>)>>,
      <<(<<cA, cB, cC>>), SectionLines(<<cZ>>, <<>>)>> }

ExampleChanges ==
    { <<AtX, cEmpty, cBlank, cFoo, cEmpty, AtY>>,
      <<cFoo, AtX, cBlank, cFoo, AtY, cFoo, AtZ, AtX, AtY>> }

\* in place of a file's lines: the file does not exist
Missing == <<(<<-1>>)>>

Files(web, ch1, ch2) ==
    [n \in {"web", "ch1", "ch2"} |->
        LET lines == IF n = "web" THEN web ELSE IF n = "ch1" THEN ch1 ELSE ch2
        IN  IF lines = Missing THEN NoFile ELSE FileBytes(lines)]

InitRest ==
    /\ chi = 0
    /\ chfilelines = <<>>
    /\ sections = <<>>
    /\ headline = NoLine
    /\ oldlines = <<>>
    /\ newlines = <<>>
    /\ chfile = <<>>
    /\ text = <<>>
    /\ chfilesections = <<>>
    /\ section = NoSection
    /\ matches = <<>>
    /\ result = <<>>
    /\ err = NoErr
    /\ stderr = <<>>
    /\ out = NotRendered
    /\ renderer = "none"
    /\ printed = <<>>
    /\ written = <<>>

\* the values config.output takes: None, Some("-"), Some of a path
Outputs == {<<>>, <<"-">>, <<"out">>}

\* Config::new has returned Ok for `prog [-o o] web chfilenames...` and run has
\* passed set_current_dir
InitConfigured(o) ==
    /\ args = (IF o = <<>> THEN <<"prog">> ELSE <<"prog", "-o">> \o o)
                  \o <<"web">> \o chfilenames
    /\ argi = Len(args) - Len(chfilenames)
    /\ verbose = 0
    /\ directory = <<>>
    /\ output = o
    /\ config = Config(0, <<>>, o, "web", chfilenames)
    /\ cwd = "."

\* one change file, given once or twice
InitOne ==
    /\ \E in \in (BoundedSeqs(Letters, MaxWebLen)
                    \X (WellFormed(MaxChLen) \cup BoundedSeqs(RawContents, MaxRawLen)))
                  \cup ExampleInputs :
           fs = Files(in[1], in[2], <<>>)
    /\ chfilenames \in {<<"ch1">>, <<"ch1", "ch1">>}
    /\ InitConfigured(<<>>)

\* two change files
InitTwo ==
    /\ \E web \in BoundedSeqs(Letters, TwoWebLen) :
       \E ch1 \in WellFormed(TwoChLen) :
       \E ch2 \in WellFormed(TwoChLen) :
           fs = Files(web, ch1, ch2)
    /\ chfilenames = <<"ch1", "ch2">>
    /\ InitConfigured(<<>>)

\* the files run may find missing or broken, in either order, and every output
RunFiles ==
    { Missing, <<>>, SectionLines(<<cA>>, <<cB>>), SectionLines(<<cB>>, <<cC>>),
      <<AtX>>, SectionLines(<<cZ>>, <<>>) }

InitMissing ==
    /\ \E web \in {Missing, <<cA>>, <<cA, cB>>} :
       \E ch1 \in RunFiles :
       \E ch2 \in RunFiles :
           fs = Files(web, ch1, ch2)
    /\ chfilenames \in {<<"ch1">>, <<"ch1", "ch2">>, <<"ch2", "ch1">>,
                        <<"ch1", "ch2", "ch1">>}
    /\ \E o \in Outputs : InitConfigured(o)

Init ==
    /\ InitOne \/ InitTwo \/ InitMissing
    /\ pc = "start"
    /\ weblines = <<>>
    /\ InitRest

Spec == Init /\ [][Next]_vars

\* read_changefile alone, on any change file; the base file is empty
InitParse ==
    /\ \E ch1 \in BoundedSeqs(ParseContents, MaxParseLen) \cup ExampleChanges :
           fs = Files(<<>>, ch1, <<>>)
    /\ chfilenames = <<"ch1">>
    /\ InitConfigured(<<>>)
    /\ pc = "chfile_loop"
    /\ weblines = <<>>
    /\ InitRest

SpecParse == InitParse /\ [][NextParse]_vars

MaxArgs == 5       \* arguments, the program name included

ArgStrings == {"-v", "-vv", "-w", "-o", "--", "web", "ch1"}

\* main is started with any argument vector, the empty one included; of the
\* names an argument can give, "web" and "ch1" are files
InitConfig ==
    /\ args \in BoundedSeqs(ArgStrings, MaxArgs)
    /\ argi = 1
    /\ verbose = 0
    /\ directory = <<>>
    /\ output = <<>>
    /\ config = NoConfig
    /\ cwd = "."
    /\ fs = [n \in ArgStrings |->
                IF n = "web" THEN FileBytes(<<cA, cB>>)
                ELSE IF n = "ch1" THEN FileBytes(<<>>)
                ELSE NoFile]
    /\ chfilenames = <<>>
    /\ pc = "config_new"
    /\ weblines = <<>>
    /\ InitRest

SpecConfig == InitConfig /\ [][NextConfig]_vars

MaxRenderLen == 2  \* lines handed to a renderer

RenderNames == {"w", "web", "café"}
RenderLineNums == {1, 10, 9999, 10000, UsizeMax}
RenderContents == {cFoo, <<>>, <<9, 65, 127, 255>>}

\* run at the end of the loop over its change files, with any line sequence
InitRender ==
    /\ fs = Files(<<>>, <<>>, <<>>)
    /\ chfilenames = <<"ch1">>
    /\ \E o \in Outputs : InitConfigured(o)
    /\ pc = "chfile_loop"
    /\ weblines \in BoundedSeqs(
           {FileLine(f, n, c) : f \in RenderNames, n \in RenderLineNums,
                                c \in RenderContents}, MaxRenderLen)
    /\ chi = 1
    /\ chfilelines = <<>>
    /\ sections = <<>>
    /\ headline = NoLine
    /\ oldlines = <<>>
    /\ newlines = <<>>
    /\ chfile = <<>>
    /\ text = weblines
    /\ chfilesections = <<>>
    /\ section = NoSection
    /\ matches = <<>>
    /\ result = weblines
    /\ err = NoErr
    /\ stderr = <<>>
    /\ out = NotRendered
    /\ renderer = "none"
    /\ printed = <<>>
    /\ written = <<>>

SpecRender == InitRender /\ [][NextRender]_vars

MaxMarkerLen == 4  \* lines of a change file made of marker look-alikes

cXyz == <<64, 120, 121, 122>>            \* "@xyz"
cYFoo == <<64, 121, 32, 102, 111, 111>>  \* "@y foo"
cZEnd == <<64, 122, 33>>                 \* "@z!"
cSpaceX == <<32, 64, 120>>               \* " @x"
cUpperX == <<64, 88>>                    \* "@X"
cUpperY == <<64, 89>>                    \* "@Y"
cAt == <<64>>                            \* "@"

MarkerContents == {cXyz, cYFoo, cZEnd, cSpaceX, cUpperX, cUpperY, cAt, cFoo}

ExampleMarkers ==
    { <<cXyz, cSpaceX, cYFoo, cUpperX, cZEnd>> }

\* read_changefile alone, on change files of marker lines with trailing text
\* and of lines that resemble markers
InitMarker ==
    /\ \E ch1 \in BoundedSeqs(MarkerContents, MaxMarkerLen) \cup ExampleMarkers :
           fs = Files(<<>>, ch1, <<>>)
    /\ chfilenames = <<"ch1">>
    /\ InitConfigured(<<>>)
    /\ pc = "chfile_loop"
    /\ weblines = <<>>
    /\ InitRest

SpecMarker == InitMarker /\ [][NextParse]_vars

-----------------------------------------------------------------------------
(* Vocabulary of the properties, stated without the program's operators *)

Contents(ls) == [i \in 1..Len(ls) |-> ls[i].contents]

\* the lines of `old` stand in `w` from index p (counted from 0), by contents
OccursAt(w, old, p) ==
    /\ p + Len(old) <= Len(w)
    /\ \A k \in 1..Len(old) : w[p + k].contents = old[k].contents

Occurs(w, old) == \E p \in 0..Len(w) : OccursAt(w, old, p)

\* apply_changefile has returned to run: Ok, or the no-match error
ApplyOk == pc = "chfile_loop" /\ chi >= 1
ApplyFailed == pc = "failed" /\ err.kind = "no_match"
ApplyReturned == ApplyOk \/ ApplyFailed

\* the index in text just past the last matched region
Cursor ==
    IF matches = <<>> THEN 0
    ELSE matches[Len(matches)].start + matches[Len(matches)].len

-----------------------------------------------------------------------------
(* C1..C5: apply_changefile *)

\* C1: when a change file has one section whose non-empty old block stands at
\* exactly one place p of the text, apply_changefile succeeds and returns
\* text[0..p), then the new block, then text[p + len(old)..]; the length
\* changes by len(new) - len(old).
C1_SingleReplacement ==
    (ApplyReturned /\ Len(chfile) = 1 /\ chfile[1].oldlines # <<>>) =>
        LET old == chfile[1].oldlines
            new == chfile[1].newlines
            places == {p \in 0..Len(text) : OccursAt(text, old, p)}
        IN  \A p \in places :
                places = {p} =>
                    /\ ApplyOk
                    /\ weblines = SubSeq(text, 1, p) \o new
                                    \o SubSeq(text, p + Len(old) + 1, Len(text))
                    /\ Len(weblines) = Len(text) + Len(new) - Len(old)

\* C1 witness: [A,B,C,D] with old [B,C] and new [X] has given [A,X,D]
C1_Witness ==
    /\ ApplyOk
    /\ Len(chfile) = 1
    /\ Contents(text) = <<cA, cB, cC, cD>>
    /\ Contents(chfile[1].oldlines) = <<cB, cC>>
    /\ Contents(chfile[1].newlines) = <<cX>>
    /\ Contents(weblines) = <<cA, cX, cD>>

\* C2: inside one call of apply_changefile the sections match at places of the
\* input text that never go back: each matched region really holds the
\* section's old block, starts at or after the end of the one before, and the
\* text still to be searched is exactly the input text after the last match
\* (so neither earlier text nor emitted new lines are searched); [A,B] with
\* sections old [B] then old [A] fails on the second section.
C2_ForwardOnly ==
    /\ pc = "apply" =>
           /\ weblines = SubSeq(text, Cursor + 1, Len(text))
           /\ Len(matches) = Len(chfile) - Len(chfilesections)
    /\ (pc = "apply" \/ ApplyReturned) =>
           \A k \in 1..Len(matches) :
               /\ k <= Len(chfile)
               /\ OccursAt(text, chfile[k].oldlines, matches[k].start)
               /\ k > 1 =>
                      matches[k].start >= matches[k - 1].start + matches[k - 1].len
    /\ (/\ ApplyReturned
        /\ Contents(text) = <<cA, cB>>
        /\ Len(chfile) = 2
        /\ Contents(chfile[1].oldlines) = <<cB>>
        /\ Contents(chfile[2].oldlines) = <<cA>>)
       => (ApplyFailed /\ err = NoMatchError(chfile[2].headline))

\* C2 witness: the second section's old [A] stands before the first match and
\* has not been found
C2_Witness ==
    /\ ApplyFailed
    /\ Contents(text) = <<cA, cB>>
    /\ Len(chfile) = 2
    /\ Len(matches) = 1
    /\ matches[1].start = 1
    /\ Contents(chfile[2].oldlines) = <<cA>>
    /\ err.line_num = chfile[2].headline.line_num

\* C3: when the old block of the section reached does not stand in the text
\* left, apply_changefile returns the error naming the file and line of the
\* section's @x line and no lines; run stops there: it takes no further step,
\* so no later change file is applied and nothing is rendered.
C3_NoMatchFails ==
    [][ /\ (/\ pc = "apply"
            /\ chfilesections # <<>>
            /\ ~Occurs(weblines, Head(chfilesections).oldlines))
           => LET h == Head(chfilesections).headline
              IN  /\ pc' = "failed"
                  /\ err' = [kind |-> "no_match", filename |-> h.filename,
                             line_num |-> h.line_num]
                  /\ StartsWith(h.contents, AtX)
                  /\ h.filename = chfilenames[chi]
                  /\ result' = <<>>
                  /\ weblines' = <<>>
                  /\ out' = NotRendered
        /\ pc # "failed" ]_vars

\* C3 witness: the first section was applied, the second did not match, and
\* a change file was still to come
C3_Witness ==
    /\ ApplyFailed
    /\ Len(matches) = 1
    /\ Len(chfile) = 2
    /\ chi < Len(chfilenames)
    /\ result = <<>>
    /\ out = NotRendered
    /\ err = NoMatchError(chfile[2].headline)

\* C4 (as claimed): a section with an empty old block is a pure insertion
\* whatever text is left, also when none is left: it matches at the cursor,
\* its new lines are appended to the result, no line is removed, no error.
C4_EmptyOldAlwaysInserts ==
    [][ (/\ pc = "apply"
         /\ chfilesections # <<>>
         /\ Head(chfilesections).oldlines = <<>>)
        => /\ pc' = "apply"
           /\ err' = NoErr
           /\ result' = result \o Head(chfilesections).newlines
           /\ weblines' = weblines ]_vars

\* C5 (as claimed): a one-section change file whose first application
\* succeeded always fails with the no-match error when applied again.
C5_SecondAlwaysFails ==
    (/\ chfilenames = <<"ch1", "ch1">>
     /\ chi = 2
     /\ Len(chfile) = 1
     /\ ApplyReturned)
    => (ApplyFailed /\ err = NoMatchError(chfile[1].headline))

\* C5 (amended): the second application of a one-section change file fails
\* with the no-match error exactly when its old block does not stand in the
\* result of the first application.
C5_SecondFailsIffGone ==
    (/\ chfilenames = <<"ch1", "ch1">>
     /\ chi = 2
     /\ Len(chfile) = 1
     /\ ApplyReturned)
    => ((ApplyFailed /\ err = NoMatchError(chfile[1].headline))
            <=> ~Occurs(text, chfile[1].oldlines))

\* C5 witness: [A,B] with old [B], new [A] gave [A,A]; the second application
\* has failed
C5_Witness ==
    /\ chfilenames = <<"ch1", "ch1">>
    /\ chi = 2
    /\ Len(chfile) = 1
    /\ ApplyFailed
    /\ Contents(text) = <<cA, cA>>
    /\ Contents(chfile[1].oldlines) = <<cB>>
    /\ Contents(chfile[1].newlines) = <<cA>>

-----------------------------------------------------------------------------
(* C6..C10: read_changefile *)

\* the change file being parsed, as read_filelines gave it
ChangeLines == IF chi >= 1 THEN read_filelines(chfilenames[chi]) ELSE <<>>

\* the contents hold no byte other than space, tab, LF, FF, CR
Blank(c) == \A k \in 1..Len(c) : c[k] \in {9, 10, 12, 13, 32}

\* the contents begin with the byte @ and then the byte b
Marked(c, b) == Len(c) >= 2 /\ c[1] = 64 /\ c[2] = b
MarkedX(l) == Marked(l.contents, 120)
MarkedY(l) == Marked(l.contents, 121)
MarkedZ(l) == Marked(l.contents, 122)

Least(S) == CHOOSE i \in S : \A j \in S : i <= j

\* index of the first line after line `from` that begins with @ and b, or the
\* file's length + 1
FirstMarkedAfter(from, b) ==
    LET S == {i \in (from + 1)..Len(ChangeLines) : Marked(ChangeLines[i].contents, b)}
    IN  IF S = {} THEN Len(ChangeLines) + 1 ELSE Least(S)

\* index in ChangeLines of the line the iterator yields next
NextIndex == Len(ChangeLines) - Len(chfilelines) + 1

Parsing == pc \in {"find_x", "find_y", "find_z"}

\* C6: of the lines between a section's @x line and its @y line, those before
\* the first line holding a non-whitespace byte are dropped and all lines from
\* that one to the @y line are the old block, verbatim; so an old block is
\* empty or begins with a non-blank line; the new block is every line from the
\* @y line to the @z line (or the end of the file), none trimmed.
C6_LeadingBlanksDropped ==
    (Parsing \/ pc = "parsed") =>
        \A k \in 1..Len(sections) :
            LET s == sections[k]
                h == s.headline.line_num
                y == FirstMarkedAfter(h, 121)
                z == FirstMarkedAfter(y, 122)
                between == SubSeq(ChangeLines, h + 1, y - 1)
                nonblank == {i \in 1..Len(between) : ~Blank(between[i].contents)}
            IN  /\ y <= Len(ChangeLines)
                /\ s.oldlines = IF nonblank = {} THEN <<>>
                                ELSE SubSeq(between, Least(nonblank), Len(between))
                /\ s.oldlines = <<>> \/ ~Blank(s.oldlines[1].contents)
                /\ s.newlines = SubSeq(ChangeLines, y + 1, z - 1)

\* C6 witness: the lines "", "  ", "foo", "" between @x and @y have given the
\* old block ["foo", ""]
C6_Witness ==
    /\ pc = "parsed"
    /\ Contents(ChangeLines) = <<AtX, cEmpty, cBlank, cFoo, cEmpty, AtY>>
    /\ Len(chfile) = 1
    /\ Contents(chfile[1].oldlines) = <<cFoo, cEmpty>>

\* C7: while read_changefile looks for the next @x, a line beginning with @y
\* or @z makes it fail at once with the error naming that line's file and
\* line number, and no sections are returned; any other line that does not
\* begin with @x is passed over and changes nothing.
C7_StrayMarkerFails ==
    [][ (pc = "find_x" /\ chfilelines # <<>>) =>
            LET l == Head(chfilelines)
            IN  /\ l = ChangeLines[NextIndex]
                /\ l.line_num = NextIndex
                /\ l.filename = chfilenames[chi]
                /\ (MarkedY(l) \/ MarkedZ(l)) =>
                       /\ pc' = "failed"
                       /\ err' = [kind |-> "missing_x", filename |-> l.filename,
                                  line_num |-> l.line_num]
                       /\ sections' = <<>>
                       /\ chfile' = <<>>
                /\ (~MarkedX(l) /\ ~MarkedY(l) /\ ~MarkedZ(l)) =>
                       /\ chfilelines' = Tail(chfilelines)
                       /\ UNCHANGED <<pc, sections, headline, oldlines, newlines,
                                      chfile, err, stderr>> ]_vars

\* C7 witness: a first section was well-formed and the @y on line 4 has failed
\* the parse
C7_Witness ==
    /\ pc = "failed"
    /\ Contents(ChangeLines) = <<AtX, AtY, AtZ, AtY>>
    /\ err = [kind |-> "missing_x", filename |-> "ch1", line_num |-> 4]
    /\ sections = <<>>

\* C8: when the file ends after a section's @x line before any line beginning
\* with @y, read_changefile fails with the error naming the file and line of
\* that @x line and returns no sections: with no @y among the lines left the
\* parser stays in the old lines of the same header until the file ends, and
\* there it fails.
C8_EndedAfterXFails ==
    [][ (pc = "find_y") =>
            /\ headline = ChangeLines[headline.line_num]
            /\ MarkedX(headline)
            /\ headline.line_num < NextIndex
            /\ (chfilelines # <<>> /\ \A i \in 1..Len(chfilelines) : ~MarkedY(chfilelines[i]))
                   => /\ pc' = "find_y"
                      /\ headline' = headline
                      /\ chfilelines' = Tail(chfilelines)
            /\ chfilelines = <<>>
                   => /\ pc' = "failed"
                      /\ err' = [kind |-> "ended_after_x",
                                 filename |-> chfilenames[chi],
                                 line_num |-> headline.line_num]
                      /\ sections' = <<>>
                      /\ chfile' = <<>> ]_vars

\* C8 witness: the second section's @x on line 4 had no @y after it
C8_Witness ==
    /\ pc = "failed"
    /\ Contents(ChangeLines) = <<AtX, AtY, AtZ, AtX, cFoo>>
    /\ err = [kind |-> "ended_after_x", filename |-> "ch1", line_num |-> 4]
    /\ sections = <<>>

\* C9: when the file ends after a section's @y line with no line beginning
\* with @z, read_changefile does not fail: it writes a diagnostic, closes the
\* section with every line after its @y line as the new block, and returns it
\* after all earlier sections.
C9_MissingZTolerated ==
    [][ /\ pc = "find_z" =>
               LET y == FirstMarkedAfter(headline.line_num, 121)
               IN  /\ newlines = SubSeq(ChangeLines, y + 1, NextIndex - 1)
                   /\ chfilelines = <<>> =>
                          /\ pc' = "find_x"
                          /\ err' = NoErr
                          /\ stderr' = Append(stderr,
                                 [kind |-> "missing_z", filename |-> chfilenames[chi]])
                          /\ sections' = Append(sections,
                                 [headline |-> headline, oldlines |-> oldlines,
                                  newlines |-> SubSeq(ChangeLines, y + 1,
                                                      Len(ChangeLines))])
                          /\ chfilelines' = <<>>
        /\ (pc = "find_x" /\ chfilelines = <<>>) =>
               /\ pc' = "parsed"
               /\ chfile' = sections
               /\ err' = NoErr ]_vars

\* C9 witness: the second section had no @z; both sections were returned and
\* the second one's new block is the line after its @y
C9_Witness ==
    /\ pc = "parsed"
    /\ Contents(ChangeLines) = <<AtX, AtY, AtZ, AtX, AtY, cFoo>>
    /\ Len(chfile) = 2
    /\ Contents(chfile[2].newlines) = <<cFoo>>
    /\ stderr = <<[kind |-> "missing_z", filename |-> "ch1"]>>
    /\ err = NoErr

\* C10 (as claimed): a line beginning with @x met while a pair is open closes
\* that pair and becomes a header, so it is never a line of an old or new
\* block.
C10_HeaderAnywhere ==
    /\ \A i \in 1..Len(oldlines) : ~MarkedX(oldlines[i])
    /\ \A i \in 1..Len(newlines) : ~MarkedX(newlines[i])
    /\ \A k \in 1..Len(sections) :
           /\ \A i \in 1..Len(sections[k].oldlines) : ~MarkedX(sections[k].oldlines[i])
           /\ \A i \in 1..Len(sections[k].newlines) : ~MarkedX(sections[k].newlines[i])

\* C10 (amended): a line beginning with @x becomes a header only when no pair
\* is open; met while a pair is open it does not close the pair: it is kept
\* as a line of the old block (before @y) or of the new block (after @y).
C10_HeaderOnlyBetweenPairs ==
    [][ (Parsing /\ chfilelines # <<>> /\ MarkedX(Head(chfilelines))) =>
            /\ pc = "find_x" =>
                   /\ pc' = "find_y"
                   /\ headline' = Head(chfilelines)
                   /\ oldlines' = <<>>
                   /\ sections' = sections
            /\ pc = "find_y" =>
                   /\ pc' = "find_y"
                   /\ headline' = headline
                   /\ oldlines' = Append(oldlines, Head(chfilelines))
                   /\ sections' = sections
            /\ pc = "find_z" =>
                   /\ pc' = "find_z"
                   /\ headline' = headline
                   /\ newlines' = Append(newlines, Head(chfilelines))
                   /\ sections' = sections ]_vars

\* C10 witness: one section has been returned whose old block and new block
\* each hold an @x line
C10_Witness ==
    /\ pc = "parsed"
    /\ Contents(ChangeLines) = <<AtX, AtX, AtY, AtX, AtZ>>
    /\ Len(chfile) = 1
    /\ chfile[1].headline.line_num = 1
    /\ Contents(chfile[1].oldlines) = <<AtX>>
    /\ Contents(chfile[1].newlines) = <<AtX>>

-----------------------------------------------------------------------------
(* C11..C13, C15, C17: apply_changefile and run *)

RECURSIVE Splice(_, _)
\* the text from index `from` on (counted from 0) in which the region matched
\* by each section k, k+1, ... is replaced by that section's new lines
Splice(k, from) ==
    IF k > Len(matches) THEN SubSeq(text, from + 1, Len(text))
    ELSE SubSeq(text, from + 1, matches[k].start)
             \o chfile[k].newlines
             \o Splice(k + 1, matches[k].start + matches[k].len)

\* the lines of the named file with their numbers, stated without SplitLines:
\* the file's bytes are these contents, each followed by a line feed
IsLineOf(l, name) ==
    /\ l.filename = name
    /\ l.line_num >= 1
    /\ LET before == {i \in 1..Len(fs[name]) : fs[name][i] = 10}
           ends == {i \in before : Cardinality({j \in before : j <= i}) = l.line_num}
       IN  /\ ends # {}
           /\ LET e == CHOOSE i \in ends : TRUE
                  b == IF l.line_num = 1 THEN 0
                       ELSE CHOOSE i \in before :
                                Cardinality({j \in before : j <= i}) = l.line_num - 1
              IN  l.contents = SubSeq(fs[name], b + 1, e - 1)

\* C11: when apply_changefile succeeds its output is the input text in which
\* each matched run is replaced, in place, by the section's new lines: the
\* text lines outside the matched runs are there once, in order, unchanged
\* (file, number, contents); the new lines carry the file and line number they
\* have in the change file; no old line of the change file is in the output.
C11_OutputIsSplice ==
    ApplyOk =>
        /\ Len(matches) = Len(chfile)
        /\ weblines = Splice(1, 0)
        /\ \A k \in 1..Len(chfile) :
               /\ \A i \in 1..Len(chfile[k].newlines) :
                      IsLineOf(chfile[k].newlines[i], chfilenames[chi])
               /\ \A i \in 1..Len(chfile[k].oldlines) :
                      \A j \in 1..Len(weblines) : weblines[j] # chfile[k].oldlines[i]

\* C11 witness: old [B] of [A,B,A] was replaced by two new lines, which carry
\* lines 4 and 5 of the change file; the base lines around keep their numbers
C11_Witness ==
    /\ ApplyOk
    /\ chi = 1
    /\ Len(chfile) = 1
    /\ Contents(text) = <<cA, cB, cA>>
    /\ matches = <<[start |-> 1, len |-> 1]>>
    /\ weblines = <<[filename |-> "web", line_num |-> 1, contents |-> cA],
                    [filename |-> "ch1", line_num |-> 4, contents |-> cA],
                    [filename |-> "ch1", line_num |-> 5, contents |-> cA],
                    [filename |-> "web", line_num |-> 3, contents |-> cA]>>

\* the base file's lines, stated without SplitLines
IsBase(ls) ==
    /\ \A i \in 1..Len(ls) : ls[i].line_num = i /\ IsLineOf(ls[i], "web")
    /\ Len(ls) = Cardinality({i \in 1..Len(fs["web"]) : fs["web"][i] = 10})

\* C12: run takes the change files in argument order, one after the other; the
\* first is applied to the base text and each later one to the line sequence
\* the one before it returned; the text handed to the renderer is what the last
\* one returned.
C12_Cumulative ==
    [][ /\ chi' \in {chi, chi + 1}
        /\ (pc' = "find_x" /\ chi' # chi) =>
               \A i \in 1..Len(chfilelines') :
                   /\ chfilelines'[i].line_num = i
                   /\ IsLineOf(chfilelines'[i], chfilenames[chi + 1])
        /\ (pc = "parsed" /\ pc' = "apply") =>
               /\ chfilesections' = chfile
               /\ IF chi = 1 THEN IsBase(text') ELSE text' = result
        /\ (pc = "apply" /\ pc' = "chfile_loop") => weblines' = result'
        /\ (pc' = "done") =>
               /\ chi = Len(chfilenames)
               /\ out' = result
      ]_vars

\* C12 witness: the second change file has replaced a line that the first one
\* inserted
C12_Witness ==
    /\ ApplyOk
    /\ chfilenames = <<"ch1", "ch2">>
    /\ chi = 2
    /\ Len(matches) = 1
    /\ matches[1].len = 1
    /\ text[matches[1].start + 1].filename = "ch1"
    /\ \E i \in 1..Len(weblines) : weblines[i].filename = "ch2"

\* a renderer has been called
Rendered == renderer # "none" \/ out # NotRendered

\* C13: a renderer is called at most once, and only from the end of the loop
\* over the change files, with no error: the loop is entered when the base file
\* is read, it takes the next change file only when the one before was read,
\* parsed and applied to its last section, in that order; a failure ends run at
\* once: nothing is processed after it and no renderer is called.
C13_RenderOnceAfterAll ==
    [][ /\ ~Rendered
        /\ pc # "failed"
        /\ (err' # NoErr) => (pc' = "failed" /\ ~Rendered')
        /\ Rendered' =>
               /\ pc = "chfile_loop" /\ pc' = "done"
               /\ chi = Len(chfilenames)
               /\ err = NoErr /\ err' = NoErr
               /\ out' = weblines
               /\ renderer' \in {"print_filelines", "write_filelines"}
        /\ (chi' # chi) => (chi' = chi + 1 /\ pc = "chfile_loop")
        /\ (pc' = "chfile_loop") =>
               \/ pc = "start" /\ fs[config.webfilename] # NoFile /\ chi = 0
               \/ pc = "apply" /\ chfilesections = <<>>
                                /\ Len(matches) = Len(chfile)
        /\ (pc' = "apply") => pc \in {"parsed", "apply"}
        /\ (pc' = "parsed") => (pc = "find_x" /\ fs[chfilenames[chi]] # NoFile)
      ]_vars

\* C13 witness: the first of three change files was applied and replaced a
\* line, the second cannot be read: run has failed, the third is not taken and
\* nothing is rendered
C13_Witness ==
    /\ pc = "failed"
    /\ chfilenames = <<"ch1", "ch2", "ch1">>
    /\ chi = 2
    /\ err = IoError("ch2")
    /\ Len(matches) = 1
    /\ weblines # text
    /\ ~Rendered

\* the file has no line that starts with @x, stated on its bytes
NoHeaderLine(bytes) ==
    \A i \in 1..(Len(bytes) - 1) :
        ~ /\ i = 1 \/ bytes[i - 1] = 10
          /\ bytes[i] = 64
          /\ bytes[i + 1] = 120

\* C15: when no change section is applied (every change file of the run has
\* no section) the text handed to the renderer is the base text: the same
\* lines in the same order with filename, line number and contents.
\* Config::new refuses an empty list of change files, so run always takes one.
C15_Identity ==
    [][ (pc' = "done" /\ \A k \in 1..Len(chfilenames) :
                              NoHeaderLine(fs[chfilenames[k]])) =>
            /\ chfile = <<>>
            /\ IsBase(out')
            /\ \A i \in 1..Len(out') : out'[i].filename = config.webfilename
      ]_vars

\* C15 witness: a base text of two lines went through two change files without
\* sections (an empty one and one with lines but no header) and is rendered
C15_Witness ==
    /\ pc = "done"
    /\ chi = 2
    /\ Len(out) = 2
    /\ chfile = <<>>
    /\ \E n \in {"ch1", "ch2"} : fs[n] # <<>> /\ fs[n] # NoFile

\* the indices of the remaining text w at which `old` stands whole
OccurrencesIn(w, old) == {i \in 0..(Len(w) - 1) : OccursAt(w, old, i)}

\* C17: the section is matched at the smallest index of the remaining text at
\* which all of its old lines stand, equal in contents, within the text; there
\* is no match only when there is no such index; the earliest occurrence is
\* the one replaced and what follows it stays in the remaining text.
C17_FirstMatch ==
    [][ (pc = "apply" /\ chfilesections # <<>>) =>
            LET s == Head(chfilesections)
                S == OccurrencesIn(weblines, s.oldlines)
            IN  IF S = {}
                THEN pc' = "failed" /\ err'.kind = "no_match"
                ELSE LET i == Least(S)
                     IN  /\ pc' = "apply" /\ err' = NoErr
                         /\ matches'[Len(matches')].start
                                = (Len(text) - Len(weblines)) + i
                         /\ result' = result \o SubSeq(weblines, 1, i) \o s.newlines
                         /\ weblines' = SubSeq(weblines, i + Len(s.oldlines) + 1,
                                               Len(weblines))
      ]_vars

\* C17 witness: the old block [A] stands twice in the text [A,B,A]; the first
\* occurrence was replaced, the second is still there as line 3 of the base
C17_Witness ==
    /\ ApplyOk
    /\ chi = 1
    /\ Len(chfile) = 1
    /\ Contents(text) = <<cA, cB, cA>>
    /\ Contents(chfile[1].oldlines) = <<cA>>
    /\ OccurrencesIn(text, chfile[1].oldlines) = {0, 2}
    /\ matches = <<[start |-> 0, len |-> 1]>>
    /\ weblines[Len(weblines)] = FileLine("web", 3, cA)

-----------------------------------------------------------------------------
(* C18, C19: read_changefile *)

RECURSIVE StoredIn(_)
\* the lines the sections hold, in the order header, old lines, new lines
StoredIn(ss) ==
    IF ss = <<>> THEN <<>>
    ELSE <<Head(ss).headline>> \o Head(ss).oldlines \o Head(ss).newlines
             \o StoredIn(Tail(ss))

\* the lines held by the finished sections and by the section being read
Stored ==
    StoredIn(sections)
        \o (IF pc \in {"find_y", "find_z"} THEN <<headline>> \o oldlines ELSE <<>>)
        \o (IF pc = "find_z" THEN newlines ELSE <<>>)

\* C18: the iterator over the change file's lines only moves forward, one line
\* at a time; every line a section holds is a line of the file already passed;
\* taken section after section as header, old lines, new lines, the stored
\* lines have strictly increasing line numbers, so no line is stored twice; in
\* each finished section the old lines lie between the header and its @y line,
\* the new lines between that @y line and the @z line after it (or the end),
\* the two marker lines are stored nowhere and the next header comes later.
C18_NoBacktracking ==
    /\ [][ Parsing => \/ chfilelines' = chfilelines
                      \/ chfilelines' = Tail(chfilelines) /\ chfilelines # <<>>
                      \/ pc' = "failed" ]_vars
    /\ []((Parsing \/ pc = "parsed") =>
            /\ \A i \in 1..Len(Stored) :
                   /\ Stored[i].line_num \in 1..(NextIndex - 1)
                   /\ Stored[i] = ChangeLines[Stored[i].line_num]
            /\ \A i \in 1..(Len(Stored) - 1) :
                   Stored[i].line_num < Stored[i + 1].line_num
            /\ \A k \in 1..Len(sections) :
                   LET s == sections[k]
                       h == s.headline.line_num
                       y == FirstMarkedAfter(h, 121)
                       z == FirstMarkedAfter(y, 122)
                   IN  /\ MarkedX(ChangeLines[h])
                       /\ y < NextIndex
                       /\ z < NextIndex \/ z = Len(ChangeLines) + 1
                       /\ \A i \in 1..Len(s.oldlines) :
                              h < s.oldlines[i].line_num /\ s.oldlines[i].line_num < y
                       /\ \A i \in 1..Len(s.newlines) :
                              y < s.newlines[i].line_num /\ s.newlines[i].line_num < z
                       /\ \A i \in 1..Len(Stored) : Stored[i].line_num \notin {y, z}
                       /\ k < Len(sections) => z < sections[k + 1].headline.line_num)

\* C18 witness: a file of nine lines with every role: a skipped line, @x, a
\* dropped blank line, an old line, @y, a new line, @z, and a second section
C18_Witness ==
    /\ pc = "parsed"
    /\ Contents(ChangeLines) = <<cFoo, AtX, cBlank, cFoo, AtY, cFoo, AtZ, AtX, AtY>>
    /\ Len(chfile) = 2
    /\ [i \in 1..Len(StoredIn(chfile)) |-> StoredIn(chfile)[i].line_num] = <<2, 4, 6, 8>>

\* C19: a line is the marker the parser looks for exactly when its contents
\* begin with the two bytes of that marker, whatever follows: while looking for
\* @x such a line opens a section (and one beginning with @y or @z is the stray
\* marker error); while reading old lines one beginning with @y ends the old
\* block; while reading new lines one beginning with @z ends the section. The
\* @y and @z lines go into no block, trailing text included; every other line
\* is no marker: it is passed over, or kept or dropped as an old line, or kept
\* as a new line.
C19_PrefixMarkers ==
    [][ (Parsing /\ chfilelines # <<>>) =>
            LET l == Head(chfilelines)
            IN  /\ pc = "find_x" =>
                       /\ (pc' = "find_y") <=> MarkedX(l)
                       /\ (pc' = "find_y") => headline' = l
                       /\ (pc' = "failed") <=> (~MarkedX(l) /\ (MarkedY(l) \/ MarkedZ(l)))
                       /\ pc' \in {"find_x", "find_y", "failed"}
                       /\ sections' = sections \/ pc' = "failed"
                /\ pc = "find_y" =>
                       /\ (pc' = "find_z") <=> MarkedY(l)
                       /\ (pc' = "find_z") => (oldlines' = oldlines /\ newlines' = <<>>)
                       /\ (pc' # "find_z") =>
                              /\ pc' = "find_y"
                              /\ oldlines' \in {oldlines, Append(oldlines, l)}
                /\ pc = "find_z" =>
                       /\ (pc' = "find_x") <=> MarkedZ(l)
                       /\ (pc' = "find_x") =>
                              sections' = Append(sections,
                                  ChangeFileSection(headline, oldlines, newlines))
                       /\ (pc' # "find_x") =>
                              /\ pc' = "find_z"
                              /\ newlines' = Append(newlines, l)
      ]_vars

\* C19 witness: "@xyz" opened a section, "@y foo" ended its old block, "@z!"
\* closed it; " @x" is its old line and "@X" its new line
C19_Witness ==
    /\ pc = "parsed"
    /\ Contents(ChangeLines) = <<cXyz, cSpaceX, cYFoo, cUpperX, cZEnd>>
    /\ chfile = <<ChangeFileSection(FileLine("ch1", 1, cXyz),
                                    <<FileLine("ch1", 2, cSpaceX)>>,
                                    <<FileLine("ch1", 4, cUpperX)>>)>>

-----------------------------------------------------------------------------
(* C16: print_filelines and write_filelines *)

\* the number of decimal digits of n, n below 10^9
Digits(n) == Least({d \in 1..9 : n < 10 ^ d})

\* the decimal digits of n as ASCII bytes
DigitBytes(n) == [i \in 1..Digits(n) |-> 48 + ((n \div (10 ^ (Digits(n) - i))) % 10)]

Greatest(S) == IF S = {} THEN 0 ELSE CHOOSE m \in S : \A x \in S : x <= m

\* the longest filename length plus the digits of the largest line number plus 2
ColumnWidth(ls) ==
    Greatest({Len(NameBytes(ls[i].filename)) : i \in 1..Len(ls)})
        + Digits(Greatest({ls[i].line_num : i \in 1..Len(ls)})) + 2

\* "<filename>(<line_number>)"
Prefix(l) == NameBytes(l.filename) \o <<40>> \o DigitBytes(l.line_num) \o <<41>>

HexChars == <<48, 49, 50, 51, 52, 53, 54, 55, 56, 57, 65, 66, 67, 68, 69, 70>>

RECURSIVE ListingBody(_)
\* the contents with every byte outside 0x20..0x7E as ESC[7m<XX>ESC[0m
ListingBody(c) ==
    IF c = <<>> THEN <<>>
    ELSE LET b == c[Len(c)]
         IN  ListingBody(SubSeq(c, 1, Len(c) - 1))
                 \o (IF b \in 32..126 THEN <<b>>
                     ELSE <<27, 91, 55, 109, 60, HexChars[(b \div 16) + 1],
                            HexChars[(b % 16) + 1], 62, 27, 91, 48, 109>>)

RECURSIVE Rendering(_, _, _)
\* the first k output lines: prefix, spaces up to the column, " | ", the body
\* (escaped or raw) and a line feed
Rendering(ls, k, escaped) ==
    IF k = 0 THEN <<>>
    ELSE Rendering(ls, k - 1, escaped)
             \o Prefix(ls[k])
             \o [i \in 1..(ColumnWidth(ls) - CharCount(Prefix(ls[k]))) |-> 32]
             \o <<32, 124, 32>>
             \o (IF escaped THEN ListingBody(ls[k].contents) ELSE ls[k].contents)
             \o <<10>>

\* C16: both renderers write one output line per line, in order: the prefix
\* "<filename>(<line_number>)", spaces up to the column = longest filename
\* length + digits of the largest line number + 2, then " | ", then the
\* contents and a line feed; no prefix is longer than the column; the listing
\* differs from the written stream only in the escaped bytes.
C16_SameColumns ==
    (pc = "done") =>
        /\ \A k \in 1..Len(out) : CharCount(Prefix(out[k])) <= ColumnWidth(out)
        /\ renderer = "print_filelines" =>
               printed = Rendering(out, Len(out), TRUE) /\ written = <<>>
        /\ renderer = "write_filelines" =>
               written = Rendering(out, Len(out), FALSE) /\ printed = <<>>

\* C16 witness: the listing of café(10000) with the bytes 09 41 7F FF and of
\* w(1) with "foo": column 12, 54 + 19 bytes
C16_Witness ==
    /\ pc = "done"
    /\ renderer = "print_filelines"
    /\ out = <<FileLine("café", 10000, <<9, 65, 127, 255>>), FileLine("w", 1, cFoo)>>
    /\ Len(printed) = 73
    /\ SubSeq(printed, 55, 73)
         = <<119, 40, 49, 41, 32, 32, 32, 32, 32, 32, 32, 32, 32, 124, 32,
             102, 111, 111, 10>>
    /\ SubSeq(printed, 17, 28) = <<27, 91, 55, 109, 60, 48, 57, 62, 27, 91, 48, 109>>

-----------------------------------------------------------------------------
(* C14, C20: Config::new *)

RECURSIVE StripOptions(_)
\* what is left of the arguments `a` after the leading options, or <<"-w">> /
\* <<"-o">> alone when that option is the last argument
StripOptions(a) ==
    IF a = <<>> THEN <<>>
    ELSE IF Head(a) \in {"-v", "-vv"} THEN StripOptions(Tail(a))
    ELSE IF Head(a) \in {"-w", "-o"}
         THEN IF Len(a) = 1 THEN a ELSE StripOptions(Tail(Tail(a)))
    ELSE IF Head(a) = "--" THEN Tail(a)
    ELSE a

\* the arguments after the program name
Operands == IF args = <<>> THEN <<>> ELSE Tail(args)

\* -w or -o is the last argument, with no value
DanglingOption == StripOptions(Operands) \in {<<"-w">>, <<"-o">>}

\* fewer than two positional arguments remain after the leading options
TooFewPositionals == ~DanglingOption /\ Len(StripOptions(Operands)) < 2

\* Config::new has returned and nothing has been touched
ReturnedErr ==
    /\ pc \in {"main", "exit"}
    /\ config.kind = "Err"
    /\ cwd = "."
    /\ weblines = <<>>
    /\ err = NoErr

\* C14 (as claimed): for every argument vector with a dangling -w or -o or
\* with fewer than two positional arguments after the leading options,
\* Config::new runs to an Err return, with the working directory unchanged
\* and no file opened.
C14_BadArgumentsAreErr ==
    (DanglingOption \/ TooFewPositionals) =>
        \/ pc \in {"config_new", "config_check"}
        \/ ReturnedErr

\* C20 (as claimed): for every argument vector i <= args.len() when the option
\* loop has ended, so args.len() - i does not underflow, args[i] and args[i..]
\* are in bounds, and Config::new returns Ok or Err and never panics.
C20_NeverPanics ==
    /\ pc # "panicked"
    /\ pc = "config_check" => argi <= Len(args)
    /\ pc \in {"main", "exit", "run"} => config.kind \in {"Ok", "Err"}

=============================================================================
